---- MODULE Spec2Model ----
(***************************************************************************)
(* Credential pool and retrying fetcher of the three entry scripts         *)
(* scraper.py, job_scraper.py and ai_scraper.py.                           *)
(*                                                                         *)
(* One behaviour is one run of one script (chosen in Init) with a pool of  *)
(* nkeys credentials.  A credential is identified by its position in       *)
(* api_keys.  One step of a fetch is one underlying call (app.scrape /     *)
(* app.extract) together with the whole handling of its outcome: the       *)
(* classification of the exception message, the rotation, the sleep and    *)
(* the loop bookkeeping.                                                   *)
(*                                                                         *)
(* Spec / FairSpec : the fetches of a run with a non-empty pool.           *)
(* SpecRun         : module level pool construction, main's loop over the  *)
(*                   sources, deduplication and export.                    *)
(* SpecDedup       : deduplicate_jobs on every bounded input sequence.     *)
(* SpecNormalize   : extract_job_data on every bounded raw listing.        *)
(***************************************************************************)
EXTENDS Integers, Sequences, FiniteSets, TLC

\* ------------------------------------------------------------------ bounds
MaxKeys == 3
MaxRetries == 3
MaxPages == 3
WalkKeys == 2

\* ------------------------------------------------------ program constants
BriefPause == 2
CooldownWait == 30
AiTries == 2

Scripts == {"scraper", "job_scraper", "ai_scraper"}

\* --------------------------------------------------- the service boundary
\* The outcomes of one underlying call: a page, or an exception whose
\* message is one of four kinds.  The scripts classify an exception only by
\* substring tests on str(e); MsgExact(e) is the set of the tested
\* substrings that the message contains, MsgLower(e) the same for
\* str(e).lower().
\*   RateLimited   : "... Status code 429. Rate limit exceeded ..."
\*   QuotaExceeded : "... Payment Required ... Insufficient credits ..."
\*   Transient     : e.g. a timeout   (none of the tested substrings)
\*   Fatal         : e.g. a malformed request (none of the tested substrings)
\*   Exhausted     : the message built at scraper.py line 92,
\*                   "Failed to scrape <url> after <m> attempts"
Errors == {"RateLimited", "QuotaExceeded", "Transient", "Fatal"}
Outcomes == {"ok"} \cup Errors

MsgExact(e) ==
    CASE e = "RateLimited"   -> {"429"}
      [] e = "QuotaExceeded" -> {"Payment Required", "Insufficient credits"}
      [] OTHER               -> {}

MsgLower(e) ==
    CASE e = "RateLimited"   -> {"429", "rate limit"}
      [] e = "QuotaExceeded" -> {"payment required", "insufficient credits"}
      [] OTHER               -> {}

\* The test that sends an exception to the rotation branch.
AnyErrorIsRotatable(s, e) == TRUE

AllButFatalRotatable(s, e) == e # "Fatal"

TransientIsRotatable(s, e) == e \in {"RateLimited", "QuotaExceeded", "Transient"}

IsRotatable(s, e) ==
    CASE s = "scraper"     -> "Rate Limit Exceeded" \in MsgExact(e)
                              \/ "rate limit" \in MsgLower(e)
      [] s = "job_scraper" -> "rate limit" \in MsgLower(e)
                              \/ "429" \in MsgExact(e)
      [] s = "ai_scraper"  -> "Payment Required" \in MsgExact(e)
                              \/ "Insufficient credits" \in MsgExact(e)

\* -------------------------------------------------------- credential pool
NextIndexNoWrap(i, n) == i + 1

NextIndexSaturating(i, n) == IF i + 1 < n THEN i + 1 ELSE i

NextIndex(i, n) == (i + 1) % n

\* no test of the pool size
rotate_unchecked(s, n, i, a) ==
    [idx |-> NextIndex(i, n), app |-> NextIndex(i, n),
     ret |-> IF s = "scraper" THEN "True" ELSE "None"]

\* the index moves on, the client is not rebuilt
rotate_index_only(s, n, i, a) ==
    IF s = "scraper" /\ n <= 1
    THEN [idx |-> i, app |-> a, ret |-> "False"]
    ELSE [idx |-> NextIndex(i, n), app |-> a,
          ret |-> IF s = "scraper" THEN "True" ELSE "None"]

\* rotate_api_key / rotate_key: the new index, the credential of the new
\* client, and the value returned to the caller.
rotate_api_key(s, n, i, a) ==
    IF s = "scraper"
    THEN IF n <= 1
         THEN [idx |-> i, app |-> a, ret |-> "False"]
         ELSE [idx |-> NextIndex(i, n), app |-> NextIndex(i, n), ret |-> "True"]
    ELSE [idx |-> NextIndex(i, n), app |-> NextIndex(i, n), ret |-> "None"]

\* ------------------------------------------------------- retrying fetcher
\* Number of iterations of the retry loop.
RangeLenPlusOne(s, m, n) ==
    CASE s = "scraper"     -> m + 1
      [] s = "job_scraper" -> m * n + 1
      [] s = "ai_scraper"  -> AiTries

RangeLen(s, m, n) ==
    CASE s = "scraper"     -> m
      [] s = "job_scraper" -> m * n
      [] s = "ai_scraper"  -> AiTries

NextAttemptStuck(a) == a

NextAttempt(a) == a + 1

\* Guard that keeps the call log finite; never binding (LogCapNotBinding).
MaxLog == MaxRetries * MaxKeys + 2

VARIABLES
    script,             \* which entry script runs
    nkeys,              \* len(api_keys)
    current_key_index,  \* global current_key_index
    app,                \* credential the global client app was built from
    pc,                 \* "idle" | "running" | "done"
    max_retries,        \* parameter of the running invocation
    attempt,            \* loop variable of the running invocation
    log,                \* underlying calls of the running invocation
    result,             \* what the invocation hands to its caller
    idxHist,            \* current_key_index after each of the latest rotate calls
    rotRet,             \* value returned by the latest rotate call
    rpc,                \* position of the run (module level code and main)
    runErr,             \* exception that ended the run at module level
    srcIdx,             \* position of the next source in main's list
    fetched,            \* some source of the run has issued an underlying call
    all_jobs,           \* main's accumulator
    unique_jobs,        \* result of the deduplication
    sink,               \* what was written to jobs.json / jobs.csv
    lastSrc,            \* how the latest source of main's loop went
    wsrc,               \* the source whose traversal is running
    wpc,                \* position of the traversal: "loop" | "done"
    max_pages,          \* parameter of scrape_site
    page_count,         \* loop iterations of the traversal so far
    current_url,        \* scrape_site's current_url (0 for None)
    site_jobs,          \* scrape_site's all_jobs: the pages whose listings it holds
    njobs,              \* len(jobs) of a scrape_* function
    wlog,               \* the latest page iteration of the traversal
    npc,                \* position of one call of extract_job_data
    raw,                \* its argument
    rec                 \* its result

fetchVars == <<current_key_index, app, pc, max_retries, attempt, log, result,
               idxHist, rotRet>>

runVars == <<rpc, runErr, srcIdx, fetched, all_jobs, unique_jobs, sink, lastSrc>>

walkVars == <<wsrc, wpc, max_pages, page_count, current_url, site_jobs, njobs, wlog>>

normVars == <<npc, raw, rec>>

vars == <<script, nkeys, current_key_index, app, pc, max_retries, attempt,
          log, result, idxHist, rotRet, rpc, runErr, srcIdx, fetched,
          all_jobs, unique_jobs, sink, npc, raw, rec, lastSrc, wsrc, wpc,
          max_pages, page_count, current_url, site_jobs, njobs, wlog>>

NoSrc == [failed |-> FALSE, pause |-> 0]

Pending == [kind |-> "pending", err |-> "-", key |-> -1]

Last(s) == s[Len(s)]

\* Keep the latest MaxKeys + 1 entries.
Window(h) == IF Len(h) > MaxKeys + 1 THEN Tail(h) ELSE h

Init ==
    /\ script \in Scripts
    /\ nkeys \in 1..MaxKeys
    /\ current_key_index = 0
    /\ app = 0
    /\ pc = "idle"
    /\ max_retries = 0
    /\ attempt = 0
    /\ log = <<>>
    /\ result = Pending
    /\ idxHist = <<0>>
    /\ rotRet = "-"
    /\ rpc = "scraping"
    /\ runErr = "-"
    /\ srcIdx = 1
    /\ fetched = FALSE
    /\ all_jobs = <<>>
    /\ unique_jobs = <<>>
    /\ sink = <<>>
    /\ lastSrc = NoSrc
    /\ npc = "off"
    /\ raw = <<>>
    /\ rec = <<>>
    /\ wsrc = "-"
    /\ wpc = "off"
    /\ max_pages = 0
    /\ page_count = 0
    /\ current_url = 0
    /\ site_jobs = <<>>
    /\ njobs = 0
    /\ wlog = <<>>

\* The index and the client start over at every fetch.
InvokeResetsIndex ==
    /\ pc \in {"idle", "done"}
    /\ max_retries' \in (IF script = "ai_scraper" THEN {AiTries} ELSE 1..MaxRetries)
    /\ pc' = "running"
    /\ attempt' = 0
    /\ log' = <<>>
    /\ result' = Pending
    /\ current_key_index' = 0
    /\ app' = 0
    /\ UNCHANGED <<script, nkeys, idxHist, rotRet>>
    /\ UNCHANGED <<runVars, normVars, walkVars>>

\* A caller invokes the fetcher for one page.
Invoke ==
    /\ pc \in {"idle", "done"}
    /\ max_retries' \in (IF script = "ai_scraper" THEN {AiTries} ELSE 1..MaxRetries)
    /\ pc' = "running"
    /\ attempt' = 0
    /\ log' = <<>>
    /\ result' = Pending
    /\ UNCHANGED <<script, nkeys, current_key_index, app, idxHist, rotRet>>
    /\ UNCHANGED <<runVars, normVars, walkVars>>

Entry(out, rotated, slept) ==
    [key |-> app, out |-> out, rotated |-> rotated, slept |-> slept]

\* The loop goes on to its next iteration, or falls out of the loop.
Continue(fallThrough) ==
    /\ attempt' = NextAttempt(attempt)
    /\ IF NextAttempt(attempt) >= RangeLen(script, max_retries, nkeys)
       THEN /\ pc' = "done"
            /\ result' = fallThrough
       ELSE /\ pc' = "running"
            /\ result' = result

Return(r) ==
    /\ pc' = "done"
    /\ result' = r
    /\ attempt' = attempt

\* scraper.py, one iteration of scrape_with_retry.
ScraperStep ==
    /\ script = "scraper"
    /\ pc = "running"
    /\ Len(log) < MaxLog
    /\ \E out \in Outcomes :
        LET r == rotate_api_key(script, nkeys, current_key_index, app)
            exhausted == [kind |-> "raised", err |-> "Exhausted", key |-> -1]
        IN  IF out = "ok"
            THEN /\ Return([kind |-> "page", err |-> "-", key |-> app])
                 /\ log' = Append(log, Entry(out, FALSE, 0))
                 /\ UNCHANGED <<current_key_index, app, idxHist, rotRet>>
            ELSE IF IsRotatable(script, out)
            THEN /\ current_key_index' = r.idx
                 /\ app' = r.app
                 /\ idxHist' = Window(Append(idxHist, r.idx))
                 /\ rotRet' = r.ret
                 /\ IF r.ret = "True"
                    THEN /\ log' = Append(log, Entry(out, TRUE, BriefPause))
                         /\ Continue(exhausted)
                    ELSE IF attempt < max_retries - 1
                    THEN /\ log' = Append(log, Entry(out, FALSE, CooldownWait))
                         /\ Continue(exhausted)
                    ELSE /\ log' = Append(log, Entry(out, FALSE, 0))
                         /\ Return([kind |-> "raised", err |-> out, key |-> -1])
            ELSE /\ Return([kind |-> "raised", err |-> out, key |-> -1])
                 /\ log' = Append(log, Entry(out, FALSE, 0))
                 /\ UNCHANGED <<current_key_index, app, idxHist, rotRet>>
    /\ UNCHANGED <<script, nkeys, max_retries>>
    /\ UNCHANGED <<runVars, normVars, walkVars>>

\* job_scraper.py, one iteration of scrape_with_retry.
JobScraperStep ==
    /\ script = "job_scraper"
    /\ pc = "running"
    /\ Len(log) < MaxLog
    /\ \E out \in Outcomes :
        LET r == rotate_api_key(script, nkeys, current_key_index, app)
            none == [kind |-> "none", err |-> "-", key |-> -1]
        IN  IF out = "ok"
            THEN /\ Return([kind |-> "page", err |-> "-", key |-> app])
                 /\ log' = Append(log, Entry(out, FALSE, 0))
                 /\ UNCHANGED <<current_key_index, app, idxHist, rotRet>>
            ELSE IF IsRotatable(script, out)
            THEN /\ current_key_index' = r.idx
                 /\ app' = r.app
                 /\ idxHist' = Window(Append(idxHist, r.idx))
                 /\ rotRet' = r.ret
                 /\ log' = Append(log, Entry(out, TRUE, 0))
                 /\ Continue(none)
            ELSE /\ Return(none)
                 /\ log' = Append(log, Entry(out, FALSE, 0))
                 /\ UNCHANGED <<current_key_index, app, idxHist, rotRet>>
    /\ UNCHANGED <<script, nkeys, max_retries>>
    /\ UNCHANGED <<runVars, normVars, walkVars>>

\* ai_scraper.py, the fetch of one page inside scrape_site: the call in the
\* try block (attempt 0) and the call in the except handler (attempt 1).
AiScraperStep ==
    /\ script = "ai_scraper"
    /\ pc = "running"
    /\ Len(log) < MaxLog
    /\ \E out \in Outcomes :
        LET r == rotate_api_key(script, nkeys, current_key_index, app)
            brk == [kind |-> "break", err |-> "-", key |-> -1]
        IN  IF out = "ok"
            THEN /\ Return([kind |-> "page", err |-> "-", key |-> app])
                 /\ log' = Append(log, Entry(out, FALSE, 0))
                 /\ UNCHANGED <<current_key_index, app, idxHist, rotRet>>
            ELSE IF attempt = 0 /\ IsRotatable(script, out)
            THEN /\ current_key_index' = r.idx
                 /\ app' = r.app
                 /\ idxHist' = Window(Append(idxHist, r.idx))
                 /\ rotRet' = r.ret
                 /\ log' = Append(log, Entry(out, TRUE, BriefPause))
                 /\ Continue(brk)
            ELSE /\ Return(brk)
                 /\ log' = Append(log, Entry(out, FALSE, 0))
                 /\ UNCHANGED <<current_key_index, app, idxHist, rotRet>>
    /\ UNCHANGED <<script, nkeys, max_retries>>
    /\ UNCHANGED <<runVars, normVars, walkVars>>

Step == ScraperStep \/ JobScraperStep \/ AiScraperStep

Next ==
    \/ Invoke
    \/ ScraperStep
    \/ JobScraperStep
    \/ AiScraperStep

Spec == Init /\ [][Next]_vars

\* Every underlying call and every sleep returns: a running invocation
\* keeps taking its steps.
FairSpec == Spec /\ WF_vars(Step)

TypeOK ==
    /\ script \in Scripts
    /\ nkeys \in 1..MaxKeys
    /\ pc \in {"idle", "running", "done"}
    /\ attempt \in Nat
    /\ Len(log) <= MaxLog

LogCapNotBinding == Len(log) < MaxLog - 1

\* ------------------------------------------------------------- strings
\* A string is a sequence of one-character strings.  Absent stands for a key
\* that the dict does not have.
Absent == <<"<absent>">>

\* dict.get(key, default)
Get(v, default) == IF v = Absent THEN default ELSE v

\* Truth value of dict.get(key): None and '' are false.
Truthy(v) == v # Absent /\ v # <<>>

RECURSIVE LStrip(_)
LStrip(s) == IF s # <<>> /\ Head(s) = " " THEN LStrip(Tail(s)) ELSE s

RECURSIVE RStrip(_)
RStrip(s) == IF s # <<>> /\ s[Len(s)] = " " THEN RStrip(SubSeq(s, 1, Len(s) - 1)) ELSE s

\* str.strip()
strip(s) == RStrip(LStrip(s))

NA == <<"N", "/", "A">>
Remote == <<"R", "e", "m", "o", "t", "e">>
FullTime == <<"F", "u", "l", "l", "-", "t", "i", "m", "e">>

\* ----------------------------------------------------------- normalizer
\* len(title) < MinTitleLen in the adapters, len(job["title"]) > TitleLenOver
\* in extract_job_data of scraper.py.
MinTitleLen == 5
TitleLenOver == 3

\* extract_job_data: <<>> for None, <<job>> for a record.
extract_job_data(s, raw_data, source) ==
    IF s = "scraper"
    THEN LET job == [title     |-> strip(Get(raw_data.title, <<>>)),
                     company   |-> strip(Get(raw_data.company, <<>>)),
                     location  |-> strip(Get(raw_data.location, <<>>)),
                     job_type  |-> strip(Get(raw_data.job_type, <<>>)),
                     apply_url |-> strip(Get(raw_data.apply_url, <<>>)),
                     source    |-> source]
         IN  IF job.title # <<>> /\ job.apply_url # <<>> /\ Len(job.title) > TitleLenOver
             THEN <<job>>
             ELSE <<>>
    ELSE IF ~ Truthy(raw_data.title) \/ ~ Truthy(raw_data.apply_url)
         THEN <<>>
         ELSE <<[title     |-> strip(raw_data.title),
                 company   |-> strip(Get(raw_data.company, NA)),
                 location  |-> strip(Get(raw_data.location, Remote)),
                 job_type  |-> strip(Get(raw_data.job_type, FullTime)),
                 apply_url |-> strip(raw_data.apply_url),
                 source    |-> source]>>

\* Inputs of the normalizer.
MaxTitleLen == 6

StrsUpTo(n) == UNION {[1..k -> {"a", " "}] : k \in 0..n}

OptionalField == {Absent, <<>>, <<"c">>}

RawListings ==
    [title     : {Absent} \cup StrsUpTo(MaxTitleLen),
     company   : OptionalField,
     location  : OptionalField,
     job_type  : OptionalField,
     apply_url : {Absent, <<>>, <<" ">>, <<"u">>, <<" ", "u", " ">>}]

IdleFetch ==
    /\ current_key_index = 0
    /\ app = 0
    /\ pc = "idle"
    /\ max_retries = 0
    /\ attempt = 0
    /\ log = <<>>
    /\ result = Pending
    /\ idxHist = <<0>>
    /\ rotRet = "-"

IdleWalk ==
    /\ wsrc = "-"
    /\ wpc = "off"
    /\ max_pages = 0
    /\ page_count = 0
    /\ current_url = 0
    /\ site_jobs = <<>>
    /\ njobs = 0
    /\ wlog = <<>>

IdleRun ==
    /\ lastSrc = NoSrc
    /\ runErr = "-"
    /\ srcIdx = 1
    /\ fetched = FALSE
    /\ all_jobs = <<>>
    /\ unique_jobs = <<>>
    /\ sink = <<>>

NormInit ==
    /\ script \in {"scraper", "job_scraper"}
    /\ nkeys = 1
    /\ IdleFetch
    /\ rpc = "scraping"
    /\ IdleRun
    /\ npc = "input"
    /\ raw \in RawListings
    /\ rec = <<>>
    /\ IdleWalk

\* One call extract_job_data(raw, source).
Normalize ==
    /\ npc = "input"
    /\ rec' = extract_job_data(script, raw, "Source")
    /\ npc' = "output"
    /\ UNCHANGED <<script, nkeys, fetchVars, runVars, walkVars, raw>>

NormNext == Normalize

SpecNormalize == NormInit /\ [][NormNext]_vars

\* ---------------------------------------------------------- deduplicator
RECURSIVE DedupNoSeenLoop(_, _, _)
DedupNoSeenLoop(jobs, i, unique) ==
    IF i > Len(jobs)
    THEN unique
    ELSE IF Get(jobs[i].apply_url, <<>>) # <<>>
         THEN DedupNoSeenLoop(jobs, i + 1, Append(unique, jobs[i]))
         ELSE DedupNoSeenLoop(jobs, i + 1, unique)

\* seen_urls.add(url) forgotten
deduplicate_no_seen(jobs) == DedupNoSeenLoop(jobs, 1, <<>>)

RECURSIVE DedupKeepLastLoop(_, _, _)
DedupKeepLastLoop(jobs, i, unique) ==
    IF i > Len(jobs)
    THEN unique
    ELSE LET url == Get(jobs[i].apply_url, <<>>)
         IN  IF url # <<>>
                /\ \A j \in (i + 1)..Len(jobs) : Get(jobs[j].apply_url, <<>>) # url
             THEN DedupKeepLastLoop(jobs, i + 1, Append(unique, jobs[i]))
             ELSE DedupKeepLastLoop(jobs, i + 1, unique)

\* the record of a later occurrence replaces the earlier one
deduplicate_keep_last(jobs) == DedupKeepLastLoop(jobs, 1, <<>>)

RECURSIVE DedupToggleLoop(_, _, _, _)
DedupToggleLoop(jobs, i, seen_urls, unique) ==
    IF i > Len(jobs)
    THEN unique
    ELSE LET url == Get(jobs[i].apply_url, <<>>)
         IN  IF url # <<>> /\ url \notin seen_urls
             THEN DedupToggleLoop(jobs, i + 1, seen_urls \cup {url}, Append(unique, jobs[i]))
             ELSE DedupToggleLoop(jobs, i + 1, seen_urls \ {url}, unique)

\* a duplicate clears its url from seen_urls
deduplicate_toggle(jobs) == DedupToggleLoop(jobs, 1, {}, <<>>)

RECURSIVE DedupKeepEmptyLoop(_, _, _, _)
DedupKeepEmptyLoop(jobs, i, seen_urls, unique) ==
    IF i > Len(jobs)
    THEN unique
    ELSE LET url == Get(jobs[i].apply_url, <<>>)
         IN  IF url \notin seen_urls
             THEN DedupKeepEmptyLoop(jobs, i + 1, seen_urls \cup {url}, Append(unique, jobs[i]))
             ELSE DedupKeepEmptyLoop(jobs, i + 1, seen_urls, unique)

\* the empty url is treated like any other
deduplicate_keep_empty(jobs) == DedupKeepEmptyLoop(jobs, 1, {}, <<>>)

\* The loop of deduplicate_jobs from position i on.
RECURSIVE DedupLoop(_, _, _, _)
DedupLoop(jobs, i, seen_urls, unique) ==
    IF i > Len(jobs)
    THEN unique
    ELSE LET url == Get(jobs[i].apply_url, <<>>)
         IN  IF url # <<>> /\ url \notin seen_urls
             THEN DedupLoop(jobs, i + 1, seen_urls \cup {url}, Append(unique, jobs[i]))
             ELSE DedupLoop(jobs, i + 1, seen_urls, unique)

deduplicate_jobs(jobs) == DedupLoop(jobs, 1, {}, <<>>)

\* --------------------------------------------------------- orchestrator
\* main's list of sources, in the configured order.
SourcesOf(s) ==
    IF s = "ai_scraper"
    THEN <<"workable", "dynamitejobs", "remotive", "mercor",
           "remote.co/developer", "remote.co/design", "remote.co/marketing">>
    ELSE <<"Workable", "DynamiteJobs", "Remotive", "Mercor", "Remote.co">>

\* The model runs the first NumSources sources of the list.
NumSources == 3
MaxPerSource == 1

Sources(s) ==
    SubSeq(SourcesOf(s), 1,
           IF NumSources < Len(SourcesOf(s)) THEN NumSources ELSE Len(SourcesOf(s)))

T4 == <<"a", "a", "a", "a">>
T5 == <<"a", "a", "a", "a", "a">>
U1 == <<"u", "1">>
U2 == <<"u", "2">>

\* What a page offers for one listing: the text of the link and its href.
Listings ==
    {[title |-> T4, apply_url |-> U1],
     [title |-> T5, apply_url |-> U1],
     [title |-> T5, apply_url |-> U2]}

SeqsUpTo(S, n) == UNION {[1..k -> S] : k \in 0..n}

\* Every scrape_* function except scrape_remotive skips a listing whose
\* title has fewer than MinTitleLen characters.
AdapterChecksTitle(source) == source # "Remotive"

\* One listing of a page through the source's adapter: <<>> or <<job>>.
\* ai_scraper.py appends the extracted dict as it is; its source field only
\* records which site the dict came from.
Adapter(s, source, l) ==
    IF s = "ai_scraper"
    THEN <<[title |-> l.title, company |-> Absent, location |-> Absent,
            job_type |-> Absent, apply_url |-> l.apply_url, source |-> source]>>
    ELSE IF AdapterChecksTitle(source) /\ (l.title = <<>> \/ Len(l.title) < MinTitleLen)
         THEN <<>>
         ELSE extract_job_data(s, [title |-> l.title, company |-> NA,
                                   location |-> Remote, job_type |-> FullTime,
                                   apply_url |-> l.apply_url], source)

RECURSIVE AdaptAll(_, _, _)
AdaptAll(s, source, ls) ==
    IF ls = <<>>
    THEN <<>>
    ELSE Adapter(s, source, Head(ls)) \o AdaptAll(s, source, Tail(ls))

\* Module level code that loads the keys and builds the first client.
PoolConstructionUnchecked(s, n) == "ok"

PoolConstruction(s, n) ==
    IF n = 0
    THEN IF s = "ai_scraper" THEN "IndexError" ELSE "ValueError"
    ELSE "ok"

\* all_jobs.extend(jobs)
ExtendInFront(acc, jobs) == jobs \o acc

Extend(acc, jobs) == acc \o jobs

RunInit ==
    /\ script \in Scripts
    /\ nkeys \in 0..MaxKeys
    /\ IdleFetch
    /\ rpc = "start"
    /\ IdleRun
    /\ npc = "off"
    /\ raw = <<>>
    /\ rec = <<>>
    /\ IdleWalk

LoadPool ==
    /\ rpc = "start"
    /\ LET r == PoolConstruction(script, nkeys)
       IN  IF r = "ok"
           THEN /\ rpc' = "scraping"
                /\ runErr' = runErr
           ELSE /\ rpc' = "aborted"
                /\ runErr' = r
    /\ UNCHANGED <<script, nkeys, fetchVars, normVars, walkVars>>
    /\ UNCHANGED <<srcIdx, fetched, all_jobs, unique_jobs, sink, lastSrc>>

\* time.sleep after each source in main's loop (none in job_scraper.py).
SourcePauseScraper == 5
SourcePauseAi == 3

SourcePause(s) ==
    CASE s = "scraper"     -> SourcePauseScraper
      [] s = "ai_scraper"  -> SourcePauseAi
      [] s = "job_scraper" -> 0

\* A failed fetch leaves the traversal as an exception that main does not catch.
FailureReachesMainUncaught(s, failed) == failed /\ s # "scraper"

\* No failure leaves a traversal: scraper.py's scrape_* functions and main
\* catch every exception, job_scraper.py's scrape_with_retry returns None,
\* scrape_site breaks.
FailureReachesMain(s, failed) == FALSE

LoopOverEarly(i, n) == i >= n

\* The for loop over the sources is over once position i is past the last of
\* the n sources.
LoopOver(i, n) == i > n

\* One iteration of main's loop: the source's traversal, the extend and the
\* pause.  A traversal whose fetch failed returns what it gathered before.
RunSource ==
    /\ rpc = "scraping"
    /\ srcIdx <= Len(Sources(script))
    /\ \E ls \in SeqsUpTo(Listings, MaxPerSource), failed \in BOOLEAN :
          IF FailureReachesMain(script, failed)
          THEN /\ rpc' = "aborted"
               /\ runErr' = "FetchError"
               /\ lastSrc' = [failed |-> failed, pause |-> 0]
               /\ UNCHANGED <<all_jobs, srcIdx>>
          ELSE /\ all_jobs' = Extend(all_jobs, AdaptAll(script, Sources(script)[srcIdx], ls))
               /\ lastSrc' = [failed |-> failed, pause |-> SourcePause(script)]
               /\ srcIdx' = srcIdx + 1
               /\ rpc' = IF LoopOver(srcIdx + 1, Len(Sources(script))) THEN "collected" ELSE "scraping"
               /\ runErr' = runErr
    /\ fetched' = TRUE
    /\ UNCHANGED <<script, nkeys, fetchVars, normVars, walkVars>>
    /\ UNCHANGED <<unique_jobs, sink>>

Deduplicate ==
    /\ rpc = "collected"
    /\ unique_jobs' = deduplicate_jobs(all_jobs)
    /\ rpc' = "deduped"
    /\ UNCHANGED <<script, nkeys, fetchVars, normVars, walkVars>>
    /\ UNCHANGED <<runErr, srcIdx, fetched, all_jobs, sink, lastSrc>>

\* export_to_json / export_to_csv, json.dump / csv writer.  scraper.py writes
\* nothing when unique_jobs is empty; the sink then holds no record either.
Export ==
    /\ rpc = "deduped"
    /\ sink' = unique_jobs
    /\ rpc' = "exported"
    /\ UNCHANGED <<script, nkeys, fetchVars, normVars, walkVars>>
    /\ UNCHANGED <<runErr, srcIdx, fetched, all_jobs, unique_jobs, lastSrc>>

RunNext ==
    \/ LoadPool
    \/ RunSource
    \/ Deduplicate
    \/ Export

SpecRun == RunInit /\ [][RunNext]_vars

\* Inputs of the deduplicator.
MaxJobs == 3

DedupRecs ==
    [title     : {T5},
     apply_url : {Absent, <<>>, U1, U2},
     source    : {"A", "B"}]

DedupInit ==
    /\ script \in Scripts
    /\ nkeys = 1
    /\ IdleFetch
    /\ rpc = "collected"
    /\ runErr = "-"
    /\ srcIdx = 1
    /\ fetched = FALSE
    /\ all_jobs \in SeqsUpTo(DedupRecs, MaxJobs)
    /\ unique_jobs = <<>>
    /\ sink = <<>>
    /\ lastSrc = NoSrc
    /\ npc = "off"
    /\ raw = <<>>
    /\ rec = <<>>
    /\ wsrc = "-"
    /\ wpc = "off"
    /\ max_pages = 0
    /\ page_count = 0
    /\ current_url = 0
    /\ site_jobs = <<>>
    /\ njobs = 0
    /\ wlog = <<>>

DedupNext ==
    \/ Deduplicate
    \/ Export

SpecDedup == DedupInit /\ [][DedupNext]_vars

\* ------------------------------------------------------------ traversals
\* scrape_with_retry(url, formats): the default of max_retries.
DefaultMaxRetries == 3

\* time.sleep after a page that names a next page (scrape_site) and after a
\* processed page (scrape_dynamitejobs).
SitePause == 2
PagePause == 2

\* for page in range(1, 51)
DynamitePages == 50

\* if len(jobs) >= 200: break
DynamiteCap == 200

\* job_links[:150], jobs[:150]
LinkCap == 150

\* Pages are named by their URLs; 0 stands for None.
Urls == 1..(MaxPages + 1)

StartUrl == 1

\* Numbers of listings that one page of a source can hold.
LinkCounts == {0, 100, 151}

\* The traversals of a script: scrape_site, or the scrape_* functions that
\* fetch one page or a range of numbered pages.
WalkSources(s) ==
    IF s = "ai_scraper"
    THEN {"site"}
    ELSE {"Workable", "DynamiteJobs", "Remotive", "Mercor"}

\* Number of page fetches a traversal issues at most.
PageCap(src, mp) ==
    CASE src = "site"         -> mp
      [] src = "DynamiteJobs" -> DynamitePages
      [] OTHER                -> 1

LoopGoesOnInclusive(src, count, mp) == count <= PageCap(src, mp)

\* page_count < max_pages; range(1, 51) not used up.
LoopGoesOn(src, count, mp) == count < PageCap(src, mp)

\* The position after the loop condition is evaluated.
LoopHead(src, url, count, mp) ==
    IF (src = "site" => url # 0) /\ LoopGoesOn(src, count, mp)
    THEN "loop"
    ELSE "done"

FollowsAnyLink(next, cur) == next # 0

\* next_url and next_url != current_url
Follows(next, cur) == next # 0 /\ next # cur

FailureEndsAlways(src) == TRUE

\* A failed page fetch ends scrape_site (break); scrape_dynamitejobs goes on
\* with the next page number (continue).
FailureEnds(src) == src = "site"

CapReachedAlways(src, n) == TRUE

CapReachedNever(src, n) == FALSE

\* if len(jobs) >= 200: break
CapReached(src, n) == src = "DynamiteJobs" /\ n >= DynamiteCap

\* Number of listings taken from a page that holds n of them.
Sliced(src, n) ==
    IF src = "DynamiteJobs" THEN n
    ELSE IF n > LinkCap THEN LinkCap ELSE n

\* What app.extract returns: nothing usable, or data with listings and a
\* next_page_url.
SiteContents ==
    {[data |-> FALSE, listings |-> 0, next |-> 0]}
    \cup [data : {TRUE}, listings : {0, 1}, next : {0} \cup Urls]

\* What app.scrape returns: an object without html, or a page of listings.
PageContents ==
    {[html |-> FALSE, links |-> 0]} \cup [html : {TRUE}, links : LinkCounts]

\* One page iteration: its number, its URL, how it went, on which call the
\* page came, the next_page_url it named, the listings it added and the time
\* slept after its last underlying call.
WEntry(kind, path, next, listings, slept) ==
    [n |-> page_count, url |-> current_url, kind |-> kind, path |-> path,
     next |-> next, listings |-> listings, slept |-> slept]

\* Keep the latest iteration.
WalkWindow(h) == IF Len(h) > 1 THEN Tail(h) ELSE h

WalkInit ==
    /\ script \in Scripts
    /\ nkeys \in 1..WalkKeys
    /\ IdleFetch
    /\ rpc = "scraping"
    /\ IdleRun
    /\ npc = "off"
    /\ raw = <<>>
    /\ rec = <<>>
    /\ wsrc \in WalkSources(script)
    /\ max_pages \in (IF wsrc = "site" THEN 1..MaxPages ELSE {0})
    /\ page_count = 0
    /\ current_url = (IF wsrc = "site" THEN StartUrl ELSE 0)
    /\ site_jobs = <<>>
    /\ njobs = 0
    /\ wlog = <<>>
    /\ wpc = LoopHead(wsrc, current_url, 0, max_pages)

\* The head of a page iteration up to the call of the fetcher.
FetchPage ==
    /\ wpc = "loop"
    /\ page_count' = page_count + 1
    /\ wpc' = "fetch"
    /\ pc' = "running"
    /\ max_retries' = (IF script = "ai_scraper" THEN AiTries ELSE DefaultMaxRetries)
    /\ attempt' = 0
    /\ log' = <<>>
    /\ result' = Pending
    /\ UNCHANGED <<script, nkeys, current_key_index, app, idxHist, rotRet>>
    /\ UNCHANGED <<runVars, normVars>>
    /\ UNCHANGED <<wsrc, max_pages, current_url, site_jobs, njobs, wlog>>

\* ai_scraper.py, the rest of one iteration of scrape_site's loop.  After the
\* first call an empty result breaks; after the retry it does not.
SitePage ==
    /\ wsrc = "site"
    /\ wpc = "fetch"
    /\ pc = "done"
    /\ LET path == IF attempt = 0 THEN "first" ELSE "retry"
       IN  IF result.kind # "page"
           THEN /\ wlog' = WalkWindow(Append(wlog, WEntry("failed", path, 0, 0, Last(log).slept)))
                /\ wpc' = IF FailureEnds(wsrc)
                          THEN "done"
                          ELSE LoopHead(wsrc, current_url, page_count, max_pages)
                /\ UNCHANGED <<current_url, site_jobs>>
           ELSE \E c \in SiteContents :
                  LET follows == c.data /\ Follows(c.next, current_url)
                      brk == IF path = "first" THEN ~ follows ELSE c.data /\ ~ follows
                      url == IF follows THEN c.next ELSE current_url
                      pause == IF path = "first" /\ follows THEN SitePause ELSE 0
                  IN  /\ site_jobs' = IF c.data /\ c.listings > 0
                                      THEN Append(site_jobs, current_url)
                                      ELSE site_jobs
                      /\ current_url' = url
                      /\ wlog' = WalkWindow(Append(wlog,
                                    WEntry(IF c.data THEN "page" ELSE "empty", path,
                                           c.next, c.listings, Last(log).slept + pause)))
                      /\ wpc' = IF brk
                                THEN "done"
                                ELSE LoopHead(wsrc, url, page_count, max_pages)
    /\ UNCHANGED <<script, nkeys, fetchVars, runVars, normVars>>
    /\ UNCHANGED <<wsrc, max_pages, page_count, njobs>>

\* scraper.py and job_scraper.py, the rest of one page of a scrape_*
\* function: the parse of the page, the pause and the cap test.  A failed
\* fetch and (in job_scraper.py) a result without html skip all three.
NumberedPage ==
    /\ wsrc \in {"Workable", "DynamiteJobs", "Remotive", "Mercor"}
    /\ wpc = "fetch"
    /\ pc = "done"
    /\ IF result.kind # "page"
       THEN /\ wlog' = WalkWindow(Append(wlog, WEntry("failed", "first", 0, 0, Last(log).slept)))
            /\ wpc' = IF FailureEnds(wsrc)
                      THEN "done"
                      ELSE LoopHead(wsrc, current_url, page_count, max_pages)
            /\ njobs' = njobs
       ELSE \E c \in PageContents :
              LET skipped == ~ c.html /\ script = "job_scraper"
                  taken == IF c.html THEN Sliced(wsrc, c.links) ELSE 0
                  pause == IF wsrc = "DynamiteJobs" /\ ~ skipped THEN PagePause ELSE 0
              IN  /\ njobs' = njobs + taken
                  /\ wlog' = WalkWindow(Append(wlog,
                                WEntry(IF c.html THEN "page" ELSE "nohtml", "first",
                                       0, taken, Last(log).slept + pause)))
                  /\ wpc' = IF ~ skipped /\ CapReached(wsrc, njobs + taken)
                            THEN "done"
                            ELSE LoopHead(wsrc, current_url, page_count, max_pages)
    /\ UNCHANGED <<script, nkeys, fetchVars, runVars, normVars>>
    /\ UNCHANGED <<wsrc, max_pages, page_count, current_url, site_jobs>>

WalkNext ==
    \/ FetchPage
    \/ ScraperStep
    \/ JobScraperStep
    \/ AiScraperStep
    \/ SitePage
    \/ NumberedPage

SpecWalk == WalkInit /\ [][WalkNext]_vars

\* ------------------------------------------------------------ observations
\* The step issued one underlying call.
CallStep == Len(log') = Len(log) + 1

Rotations == Cardinality({i \in 1..Len(log) : log[i].rotated})

AllRateLimited == \A i \in 1..Len(log) : log[i].out = "RateLimited"

\* ------------------------------------------------------------------ claims

C2_QuotaScenario ==
    ( /\ pc = "done"
      /\ nkeys = 2
      /\ Len(log) >= 1
      /\ \A i \in 1..Len(log) :
            log[i].out = (IF log[i].key = log[1].key THEN "QuotaExceeded" ELSE "ok") )
    => ( /\ result.kind = "page"
         /\ result.key # log[1].key
         /\ Len(log) = 2
         /\ Rotations = 1 )

\* C3: when an underlying call fails with QuotaExceeded or RateLimited and
\* the pool has at least 2 credentials, the fetcher rotates, so that the
\* client no longer uses the credential that just failed, and the fetch does
\* not end while attempts remain.
C3_RotatesOnQuotaOrRateLimit ==
    [][ ( /\ CallStep
          /\ nkeys >= 2
          /\ Last(log').out \in {"QuotaExceeded", "RateLimited"} )
        => ( /\ current_key_index' # Last(log').key
             /\ app' # Last(log').key
             /\ (Len(log') < max_retries => pc' = "running") ) ]_vars

\* C4: an underlying call made with a credential that already failed in this
\* invocation is preceded by a cooldown wait, for every pool size.
C4_CooldownAfterFullCycle ==
    \A i \in 2..Len(log) :
        (\E j \in 1..(i - 1) : log[j].key = log[i].key)
        => log[i - 1].slept >= CooldownWait

C6_FatalEndsFetch ==
    /\ [](\A i \in 1..Len(log) :
            log[i].out = "Fatal"
            => /\ i = Len(log)
               /\ pc = "done"
               /\ result.kind # "page")
    /\ [][ ( /\ CallStep
             /\ Last(log').out = "Fatal" )
           => ( /\ pc' = "done"
                /\ current_key_index' = current_key_index
                /\ app' = app ) ]_vars

C6_Witness ==
    /\ pc = "done"
    /\ Len(log) >= 2
    /\ Last(log).out = "Fatal"
    /\ current_key_index # 0
    /\ script \in {"scraper", "job_scraper"}

\* C7: when scrape_with_retry stops because its tries are used up, the failure
\* handed to the caller carries the classification of the last underlying
\* failure, for every pool size.
C7_LastClassificationReported ==
    ( /\ script \in {"scraper", "job_scraper"}
      /\ pc = "done"
      /\ Len(log) >= max_retries
      /\ IsRotatable(script, Last(log).out) )
    => ( /\ result.kind = "raised"
         /\ result.err = Last(log).out )

\* C8: every invocation of the fetcher terminates, whatever the outcomes of
\* the underlying calls, given that each call and each sleep returns.
C8_Terminates == (pc = "running") ~> (pc = "done")

C8_Witness ==
    /\ script = "scraper"
    /\ nkeys = 1
    /\ pc = "done"
    /\ max_retries = MaxRetries
    /\ Len(log) = max_retries
    /\ AllRateLimited

\* C9: N consecutive calls of the rotate operation on a pool of N credentials
\* leave the pool on the credential that was current before the first call.
C9_RotationCircular ==
    Len(idxHist) > nkeys => idxHist[Len(idxHist) - nkeys] = idxHist[Len(idxHist)]

C9_Witness ==
    /\ nkeys >= 2
    /\ Len(idxHist) > nkeys
    /\ idxHist[Len(idxHist) - nkeys] # 0
    /\ idxHist[Len(idxHist) - nkeys] = current_key_index

\* C10: the pool's current index is always a position of the credential list.
C10_IndexInRange ==
    /\ 0 <= current_key_index
    /\ current_key_index < nkeys

C10_Witness ==
    /\ nkeys >= 2
    /\ Len(idxHist) >= 2
    /\ idxHist[Len(idxHist) - 1] = nkeys - 1
    /\ current_key_index = 0

\* C11: with an empty credential list the pool construction fails with a
\* configuration error, and the run aborts before any underlying call and
\* before the sink is written, in each of the three scripts.
C11_EmptyPoolConfigError ==
    (nkeys = 0 /\ rpc # "start")
    => ( /\ rpc = "aborted"
         /\ runErr = "ValueError"
         /\ ~ fetched
         /\ sink = <<>> )

\* C12: on a pool of one credential the rotate operation leaves the index
\* alone and returns a value that differs from the one a real rotation returns.
C12_NoOpDistinguishable ==
    (nkeys = 1 /\ rotRet # "-")
    => ( /\ current_key_index = 0
         /\ rotRet # rotate_api_key(script, 2, 0, 0).ret )

\* C13: the pool index (and the client) at the start of a fetch is the one the
\* previous fetch of the run left; it is never reset between fetches.
C13_IndexKeptBetweenFetches ==
    [][ (pc \in {"idle", "done"} /\ pc' = "running")
        => ( /\ current_key_index' = current_key_index
             /\ app' = app ) ]_vars

C13_Witness ==
    /\ pc = "running"
    /\ log = <<>>
    /\ current_key_index # 0
    /\ nkeys >= 2

HasNoDuplicateUrl(jobs) ==
    \A i, j \in 1..Len(jobs) : i # j => jobs[i].apply_url # jobs[j].apply_url

\* C14: the output of deduplicate has no two records with the same apply_url,
\* and so has the record set handed to the sink.
C14_NoDuplicateUrls ==
    rpc \in {"deduped", "exported"}
    => (HasNoDuplicateUrl(unique_jobs) /\ HasNoDuplicateUrl(sink))

C14_Witness ==
    /\ rpc = "exported"
    /\ Len(sink) >= 2
    /\ \E i, j \in 1..Len(all_jobs) :
          i # j /\ all_jobs[i].apply_url = U1 /\ all_jobs[j].apply_url = U1

\* Position in all_jobs of the first record that carries url.
IsFirstWithUrl(i, url) ==
    /\ i \in 1..Len(all_jobs)
    /\ Get(all_jobs[i].apply_url, <<>>) = url
    /\ \A j \in 1..(i - 1) : Get(all_jobs[j].apply_url, <<>>) # url

\* C15: the output of deduplicate is a subsequence of its input in the same
\* order, and each record of the output is the first input record with its
\* apply_url, whatever the other fields of the later ones are.
C15_FirstOccurrenceSubsequence ==
    rpc \in {"deduped", "exported"}
    => \A k \in 1..Len(unique_jobs) :
          \E i \in 1..Len(all_jobs) :
             /\ IsFirstWithUrl(i, unique_jobs[k].apply_url)
             /\ unique_jobs[k] = all_jobs[i]
             /\ k > 1 => \E h \in 1..(i - 1) :
                            /\ IsFirstWithUrl(h, unique_jobs[k - 1].apply_url)
                            /\ unique_jobs[k - 1] = all_jobs[h]

C15_Witness ==
    /\ rpc = "deduped"
    /\ Len(unique_jobs) = 2
    /\ Len(all_jobs) = 3
    /\ all_jobs[1].apply_url = U2
    /\ all_jobs[2].apply_url = U1 /\ all_jobs[2].source = "A"
    /\ all_jobs[3].apply_url = U1 /\ all_jobs[3].source = "B"
    /\ unique_jobs[2] = all_jobs[2]

\* C16: deduplicate is idempotent.
C16_DedupIdempotent ==
    rpc \in {"deduped", "exported"}
    => deduplicate_jobs(unique_jobs) = unique_jobs

C16_Witness ==
    /\ rpc = "deduped"
    /\ Len(unique_jobs) = 1
    /\ Len(all_jobs) = 3
    /\ \A i \in 1..3 : all_jobs[i].apply_url = U1

\* Position of a source in main's list.
SrcPos(name) == CHOOSE p \in 1..Len(Sources(script)) : Sources(script)[p] = name

\* C17: when two sources of a run yield the same apply_url, the record of the
\* final output is the one of the source that main queried first.
C17_EarlierSourceWins ==
    rpc = "exported"
    => \A k \in 1..Len(sink) :
          /\ \E i \in 1..Len(all_jobs) : all_jobs[i] = sink[k]
          /\ \A i \in 1..Len(all_jobs) :
                all_jobs[i].apply_url = sink[k].apply_url
                => SrcPos(sink[k].source) <= SrcPos(all_jobs[i].source)

C17_Witness ==
    /\ rpc = "exported"
    /\ Len(sink) >= 1
    /\ \E i, j \in 1..Len(all_jobs) :
          /\ all_jobs[i].apply_url = all_jobs[j].apply_url
          /\ all_jobs[i].source # all_jobs[j].source
          /\ all_jobs[i].title # all_jobs[j].title

\* C18: extract_job_data returns no record for a raw listing whose apply_url
\* is empty or absent or whose title has fewer than 5 characters.
C18_RejectsShortTitleOrNoUrl ==
    ( /\ npc = "output"
      /\ \/ raw.apply_url \in {Absent, <<>>}
         \/ raw.title = Absent
         \/ Len(raw.title) < 5 )
    => rec = <<>>

\* C19: every record handed to the sink has a title of at least 5 characters
\* and a non-empty apply_url.
C19_SinkRecordsValid ==
    \A k \in 1..Len(sink) :
        /\ Len(sink[k].title) >= 5
        /\ Truthy(sink[k].apply_url)

\* C20: a record returned by extract_job_data carries the default company
\* marker, "Remote" and "Full-time" where the raw listing gives no value, and
\* never an empty company, location or job_type.
C20_DefaultsApplied ==
    (npc = "output" /\ rec # <<>>)
    => ( /\ rec[1].company # <<>>
         /\ rec[1].location # <<>>
         /\ rec[1].job_type # <<>>
         /\ ~ Truthy(raw.company) => rec[1].company = NA
         /\ ~ Truthy(raw.location) => rec[1].location = Remote
         /\ ~ Truthy(raw.job_type) => rec[1].job_type = FullTime )

\* C21: a traversal performs at most PageCap page iterations (max_pages in
\* scrape_site, 50 in scrape_dynamitejobs) and is over once the last of them
\* is done, whatever the pages hold.
C21_AtMostPageCapIterations ==
    /\ page_count <= PageCap(wsrc, max_pages)
    /\ (page_count = PageCap(wsrc, max_pages) /\ wpc # "fetch") => wpc = "done"

C21_Witness ==
    /\ wsrc = "site"
    /\ wpc = "done"
    /\ max_pages >= 2
    /\ page_count = max_pages
    /\ Len(site_jobs) = page_count
    /\ \A i, j \in 1..Len(site_jobs) : i # j => site_jobs[i] # site_jobs[j]
    /\ Last(wlog).kind = "page"
    /\ Last(wlog).next # 0
    /\ \A i \in 1..Len(site_jobs) : site_jobs[i] # Last(wlog).next

\* C22: in scrape_site with a page cap of at least 2, when page 2 names the
\* URL of page 1 as its next page, the traversal is over after page 2.
C22_CycleStopsAfterPage2 ==
    ( /\ wsrc = "site"
      /\ max_pages >= 2
      /\ wpc # "fetch"
      /\ Len(wlog) = 1
      /\ wlog[1].n = 2
      /\ wlog[1].kind = "page"
      /\ wlog[1].url # StartUrl
      /\ wlog[1].next = StartUrl )
    => (wpc = "done" /\ page_count = 2)

\* C23: in scrape_site a page that names its own URL as the next page ends
\* the traversal: the listings of the page are kept and no further fetch is
\* issued, on the first try as well as on the retry after a rotation.
C23_SelfLinkStops ==
    ( /\ wsrc = "site"
      /\ Len(wlog) = 1
      /\ wlog[1].kind = "page"
      /\ wlog[1].next = wlog[1].url )
    => ( /\ wpc = "done"
         /\ page_count = wlog[1].n
         /\ result.kind = "page"
         /\ wlog[1].listings > 0
            => (site_jobs # <<>> /\ Last(site_jobs) = wlog[1].url) )

C23_Witness ==
    /\ wsrc = "site"
    /\ wpc = "done"
    /\ page_count < max_pages
    /\ Len(wlog) = 1
    /\ wlog[1].kind = "page"
    /\ wlog[1].path = "retry"
    /\ wlog[1].next = wlog[1].url
    /\ wlog[1].listings > 0
    /\ Len(site_jobs) = 2

C25_EmptyResultEndsTraversal ==
    (wsrc = "site" /\ Len(wlog) = 1 /\ wlog[1].kind = "empty")
    => wpc = "done"

\* C26: when the fetch of a further page of a source starts, some time has
\* been slept since the last underlying call of the page before.
C26_PauseBetweenPages ==
    (wpc = "fetch" /\ Len(wlog) = 1 /\ wlog[1].n = page_count - 1)
    => wlog[1].slept > 0

\* C27: after the traversal of a source main sleeps before the next source.
C27_PauseBetweenSources ==
    (rpc \in {"scraping", "collected"} /\ srcIdx > 1)
    => lastSrc.pause > 0

C29_FetchOnlyBelowCap ==
    wsrc = "DynamiteJobs"
    => ( /\ wpc \in {"loop", "fetch"} => njobs < DynamiteCap
         /\ njobs >= DynamiteCap => wpc = "done" )

C29_Witness ==
    /\ wsrc = "DynamiteJobs"
    /\ wpc = "done"
    /\ njobs >= DynamiteCap
    /\ page_count < DynamitePages

\* C30: a source returns at most 200 (DynamiteJobs) or 150 (Workable,
\* Remotive, Mercor) listings.
C30_WithinGlobalCap ==
    wpc = "done"
    => ( /\ wsrc = "DynamiteJobs" => njobs <= 200
         /\ wsrc \in {"Workable", "Remotive", "Mercor"} => njobs <= 150 )

\* C31: a page that was fetched but yields no listing is no failure: it
\* leaves the gathered listings, the pool index, the client and the calls
\* made as they are, and the traversal goes on with the next page when there
\* is one (the next page number in scrape_dynamitejobs, the next_page_url in
\* scrape_site).
C31_MismatchIsNoFailure ==
    [][ ( /\ wpc = "fetch"
          /\ wpc' # "fetch"
          /\ wlog'[1].kind = "page"
          /\ wlog'[1].listings = 0 )
        => ( /\ site_jobs' = site_jobs
             /\ njobs' = njobs
             /\ current_key_index' = current_key_index
             /\ app' = app
             /\ log' = log
             /\ result' = result
             /\ wsrc = "DynamiteJobs"
                => wpc' = IF page_count < DynamitePages THEN "loop" ELSE "done"
             /\ (wsrc = "site" /\ Follows(wlog'[1].next, current_url))
                => ( /\ current_url' = wlog'[1].next
                     /\ wpc' = IF page_count < max_pages THEN "loop" ELSE "done" ) ) ]_vars

C31_Witness ==
    /\ wsrc = "DynamiteJobs"
    /\ wpc = "fetch"
    /\ njobs > 0
    /\ Len(wlog) = 1
    /\ wlog[1].kind = "page"
    /\ wlog[1].listings = 0
    /\ wlog[1].n = page_count - 1

\* C32: the deduplication starts only when main's loop over the sources is
\* over, it takes all_jobs as the loop left it, nothing is fetched or
\* appended from then on, the deduplication is not run again, and the sink
\* gets its result as it is.
C32_DedupOnceAfterLastAppend ==
    [][ /\ (rpc' = "deduped" /\ rpc # "deduped")
           => ( /\ rpc = "collected"
                /\ srcIdx > Len(Sources(script))
                /\ unique_jobs' = deduplicate_jobs(all_jobs) )
        /\ rpc = "collected" => rpc' \in {"collected", "deduped"}
        /\ rpc \in {"collected", "deduped", "exported"}
           => (all_jobs' = all_jobs /\ srcIdx' = srcIdx /\ fetched' = fetched)
        /\ rpc \in {"deduped", "exported"}
           => (unique_jobs' = unique_jobs /\ rpc' \in {rpc, "exported"})
        /\ (rpc' = "exported" /\ rpc # "exported") => sink' = unique_jobs
        /\ rpc = "exported" => (sink' = sink /\ rpc' = rpc) ]_vars

C32_Witness ==
    /\ rpc = "exported"
    /\ srcIdx = Len(Sources(script)) + 1
    /\ Len(sink) = 2
    /\ Len(all_jobs) = 3
    /\ sink = deduplicate_jobs(all_jobs)

\* C33: a record returned by extract_job_data has a title and an apply_url
\* that are not empty and neither start nor end with a blank.
C33_TitleAndUrlTrimmedNonEmpty ==
    (npc = "output" /\ rec # <<>>)
    => ( /\ rec[1].title # <<>>
         /\ rec[1].apply_url # <<>>
         /\ strip(rec[1].title) = rec[1].title
         /\ strip(rec[1].apply_url) = rec[1].apply_url )

\* Positions of all_jobs whose record has a non-empty apply_url that no
\* earlier record has.
KeptPositions ==
    {i \in 1..Len(all_jobs) :
        /\ Get(all_jobs[i].apply_url, <<>>) # <<>>
        /\ \A j \in 1..(i - 1) : all_jobs[j].apply_url # all_jobs[i].apply_url}

\* C34: deduplicate_jobs keeps exactly the records whose apply_url is not
\* empty and not carried by an earlier record, so its output has as many
\* records as the input has distinct non-empty apply_url values.
C34_KeepsIffFirstNonEmptyUrl ==
    rpc \in {"deduped", "exported"}
    => ( /\ Len(unique_jobs) = Cardinality(KeptPositions)
         /\ \A i \in KeptPositions :
               unique_jobs[Cardinality({j \in KeptPositions : j <= i})] = all_jobs[i]
         /\ Len(unique_jobs) =
               Cardinality({Get(all_jobs[i].apply_url, <<>>) : i \in 1..Len(all_jobs)} \ {<<>>}) )

C34_Witness ==
    /\ rpc = "deduped"
    /\ Len(all_jobs) = 3
    /\ all_jobs[1].apply_url = <<>>
    /\ all_jobs[2].apply_url = Absent
    /\ all_jobs[3].apply_url = U1
    /\ unique_jobs = <<all_jobs[3]>>

\* C35: an underlying call that succeeds, or that fails with an error which
\* is neither a rate-limit nor a quota error, leaves current_key_index and
\* the client as they are, and so does the start of an invocation.
C35_IndexKeptOnSuccessAndOtherErrors ==
    [][ /\ (CallStep /\ Last(log').out \in {"ok", "Transient", "Fatal"})
           => (current_key_index' = current_key_index /\ app' = app)
        /\ (pc # "running" /\ pc' = "running")
           => (current_key_index' = current_key_index /\ app' = app) ]_vars

C35_Witness ==
    /\ pc = "done"
    /\ Len(log) = 1
    /\ log[1].out = "Transient"
    /\ current_key_index = 1
    /\ app = 1

\* C36: the client app is always the one built from the credential at
\* current_key_index, and every underlying call is made with the credential
\* at the index that is current when the call is issued.
C36_ClientBuiltFromCurrentIndex ==
    /\ [](app = current_key_index)
    /\ [][CallStep => Last(log').key = current_key_index]_vars

C36_Witness ==
    /\ Len(log) = 2
    /\ log[1].rotated
    /\ log[1].key = 0
    /\ log[2].key = 1
    /\ log[2].out = "ok"
    /\ current_key_index = 1
    /\ app = 1

\* C37: scraper.py with one credential whose every call is rate-limited:
\* scrape_with_retry(max_retries = m) makes m calls, waits the cooldown after
\* each of them but the last, never rotates, leaves the index at 0 and ends
\* by raising the rate-limit error of the last call.
C37_SingleKeyAllRateLimited ==
    (script = "scraper" /\ nkeys = 1 /\ log # <<>> /\ AllRateLimited)
    => ( /\ current_key_index = 0
         /\ app = 0
         /\ Len(log) <= max_retries
         /\ \A i \in 1..Len(log) :
               /\ ~ log[i].rotated
               /\ log[i].key = 0
               /\ log[i].slept = IF i < max_retries THEN CooldownWait ELSE 0
         /\ Len(log) < max_retries => pc = "running"
         /\ Len(log) = max_retries
            => ( /\ pc = "done"
                 /\ result = [kind |-> "raised", err |-> "RateLimited", key |-> -1] ) )

C37_Witness ==
    /\ script = "scraper"
    /\ nkeys = 1
    /\ pc = "done"
    /\ max_retries = 3
    /\ Len(log) = 3
    /\ AllRateLimited
    /\ result.err = "RateLimited"

====
